---- MODULE Spec2Model ----
(***************************************************************************)
(* Model of the air-quality-map pipeline (src/api): the SQLite store of    *)
(* locations, sensors and their relationships (database.py), the location  *)
(* synchronisation and the ground-data aggregation (locations.py) and the  *)
(* forecaster's data checks (predictions.py).                              *)
(*                                                                         *)
(* The three tables are sets of rows.  The columns created_at / updated_at *)
(* are filled by CURRENT_TIMESTAMP and read by no query of the program;    *)
(* they are left out of the rows.  SQLite enforces PRIMARY KEY always, but *)
(* FOREIGN KEY only after PRAGMA foreign_keys = ON, which the program      *)
(* never issues: the ON DELETE CASCADE clauses are inert.                  *)
(***************************************************************************)
EXTENDS Integers, Sequences, FiniteSets, TLC

VARIABLES
    locations,          \* committed rows of table locations
    sensors,            \* committed rows of table sensors
    location_sensors,   \* committed rows of table location_sensors
    arg,                \* the call the caller has prepared: [op, value] or NoCall
    pre,                \* the committed tables as they were before the last call
    outcomes,           \* "ok" | "error" of each call made with the prepared argument
    expected,           \* per location id, the sensor ids of its last committed upsert
    writers,            \* concurrent callers of store_locations_batch: [pc, batch, tx]
    lock,               \* the connection holding SQLite's write lock, 0 when free
    observed,           \* what a concurrent get_sensors_by_location has just read
    ground,             \* the last get_ground_data_by_location_id call and its result
    ground_data,        \* app.py's ground_data: the outcome of its call for the selected location
    historical_data,    \* the forecaster's input series
    prediction,         \* the last predict_parameter_from_data call's result
    filtered_df         \* what _remove_outliers returned for historical_data

dbVars == <<locations, sensors, location_sensors>>
callerVars == <<arg, pre, outcomes>>
concVars == <<writers, lock, observed>>
groundVars == <<ground, ground_data>>
predVars == <<historical_data, prediction, filtered_df>>
vars == <<locations, sensors, location_sensors, arg, pre, outcomes, expected,
          writers, lock, observed, ground, ground_data, historical_data, prediction,
          filtered_df>>

\* Optional values: None is the empty tuple, a present value x is <<x>>
None == <<>>
Some(x) == <<x>>
NoCall == [op |-> "none"]

\* ------------------------------------------------------------------ inputs

LocationIds == {1, 2}
SensorIds == {11, 12}

\* Sensor(id, name) values a provider may list; id 11 is listed under two names.
SensorValues ==
    { [id |-> 11, name |-> "pm25"], [id |-> 11, name |-> "pm2.5"],
      [id |-> 12, name |-> "no2"] }

\* datetime.now(tz=UTC) and the last_updated instants, in hours.
NowHour == 48
DayHours == 24
LastUpdatedValues == {None, Some(10), Some(40)}

\* how often the caller repeats a prepared call
MaxRepeat == 2

ShortSensorLists == {<<>>} \cup { <<s>> : s \in SensorValues }
SensorLists == ShortSensorLists \cup { <<s, t>> : s \in SensorValues, t \in SensorValues }

Location(id, last_updated, available_sensors) ==
    [ id |-> id, name |-> "station", latitude |-> 13, longitude |-> 100,
      available_sensors |-> available_sensors, last_updated |-> last_updated ]

LocationsWith(lists) ==
    { Location(i, u, l) : i \in LocationIds, u \in LastUpdatedValues, l \in lists }

\* what client.locations.list may return: one location with up to two sensors,
\* or two locations with up to one sensor each
ProviderResults ==
    {<<>>} \cup { <<a>> : a \in LocationsWith(SensorLists) }
           \cup { <<a, b>> : a \in LocationsWith(ShortSensorLists),
                             b \in LocationsWith(ShortSensorLists) }

\* ------------------------------------------------------------------ helpers

Range(s) == { s[i] : i \in 1..Len(s) }

SensorIdsOfRows(rows) == { r.id : r \in rows }

RECURSIVE Flatten(_)
Flatten(ss) == IF ss = <<>> THEN <<>> ELSE Head(ss) \o Flatten(Tail(ss))

\* location.last_updated.isoformat() if location.last_updated else None
IsoFormat(t) == IF t = None THEN None ELSE <<"iso", t[1]>>

\* ------------------------------------------------------------------ SQL statements
\* A transaction works on tx = [locations, sensors, location_sensors, error].

Begin(l, s, ls) == [locations |-> l, sensors |-> s, location_sensors |-> ls, error |-> FALSE]

LocationRow(loc) ==
    [ id |-> loc.id, name |-> loc.name, latitude |-> loc.latitude,
      longitude |-> loc.longitude, last_updated |-> IsoFormat(loc.last_updated) ]

\* INSERT OR REPLACE INTO locations: the row with the same id is deleted first
InsertOrReplaceLocation(tx, row) ==
    [tx EXCEPT !.locations = { r \in @ : r.id # row.id } \cup {row}]

\* faulty variant: INSERT OR REPLACE INTO sensors
InsertOrReplaceSensor(tx, row) ==
    [tx EXCEPT !.sensors = { r \in @ : r.id # row.id } \cup {row}]

\* INSERT OR IGNORE INTO sensors: a row with the same id makes it a no-op
InsertOrIgnoreSensor(tx, row) ==
    IF \E r \in tx.sensors : r.id = row.id THEN tx
    ELSE [tx EXCEPT !.sensors = @ \cup {row}]

\* faulty variant: DELETE FROM location_sensors, the WHERE clause lost
DeleteLocationSensorsNoWhere(tx, loc_id) ==
    [tx EXCEPT !.location_sensors = {}]

\* DELETE FROM location_sensors WHERE location_id = ?
DeleteLocationSensors(tx, loc_id) ==
    [tx EXCEPT !.location_sensors = { r \in @ : r.location_id # loc_id }]

\* INSERT INTO location_sensors: PRIMARY KEY (location_id, sensor_id) conflict
\* raises sqlite3.IntegrityError
InsertLocationSensor(tx, row) ==
    IF row \in tx.location_sensors THEN [tx EXCEPT !.error = TRUE]
    ELSE [tx EXCEPT !.location_sensors = @ \cup {row}]

\* cursor.executemany / a for loop of cursor.execute: the rows in order, stopping
\* at the first statement that raises
RECURSIVE InsertLocations(_, _)
InsertLocations(tx, rows) ==
    IF rows = <<>> \/ tx.error THEN tx
    ELSE InsertLocations(InsertOrReplaceLocation(tx, Head(rows)), Tail(rows))

\* faulty variant: the sensors are never inserted
InsertSensorsSkipped(tx, rows) == tx

RECURSIVE InsertSensors(_, _)
InsertSensors(tx, rows) ==
    IF rows = <<>> \/ tx.error THEN tx
    ELSE InsertSensors(InsertOrIgnoreSensor(tx, Head(rows)), Tail(rows))

\* faulty variant: the relationships of the batch's locations are not removed first
DeleteRelationshipsSkipped(tx, ids) == tx

RECURSIVE DeleteRelationships(_, _)
DeleteRelationships(tx, ids) ==
    IF ids = <<>> \/ tx.error THEN tx
    ELSE DeleteRelationships(DeleteLocationSensors(tx, Head(ids)), Tail(ids))

RECURSIVE InsertRelationships(_, _)
InsertRelationships(tx, rows) ==
    IF rows = <<>> \/ tx.error THEN tx
    ELSE InsertRelationships(InsertLocationSensor(tx, Head(rows)), Tail(rows))

\* ------------------------------------------------------------------ store_locations_batch

\* sensor_data = {}; sensor_data[sensor.id] = (sensor.id, sensor.name): a key keeps
\* the position of its first assignment and the value of its last
RECURSIVE DictPut(_, _)
DictPut(d, row) ==
    IF d = <<>> THEN <<row>>
    ELSE IF Head(d).id = row.id THEN <<row>> \o Tail(d)
    ELSE <<Head(d)>> \o DictPut(Tail(d), row)

RECURSIVE DictFill(_, _)
DictFill(d, rows) ==
    IF rows = <<>> THEN d ELSE DictFill(DictPut(d, Head(rows)), Tail(rows))

SensorRow(s) == [id |-> s.id, name |-> s.name]

AllSensors(locs) == Flatten([i \in 1..Len(locs) |-> locs[i].available_sensors])

\* list(sensor_data.values())
SensorData(locs) ==
    DictFill(<<>>, [i \in 1..Len(AllSensors(locs)) |-> SensorRow(AllSensors(locs)[i])])

RelationshipsOf(loc) ==
    [i \in 1..Len(loc.available_sensors) |->
        [location_id |-> loc.id, sensor_id |-> loc.available_sensors[i].id]]

RelationshipData(locs) == Flatten([i \in 1..Len(locs) |-> RelationshipsOf(locs[i])])

LocationData(locs) == [i \in 1..Len(locs) |-> LocationRow(locs[i])]

\* the statements of store_locations_batch, in order, on the transaction tx
BatchStatements(tx, locs) ==
    InsertRelationships(
        DeleteRelationships(
            InsertSensors(InsertLocations(tx, LocationData(locs)), SensorData(locs)),
            [i \in 1..Len(locs) |-> locs[i].id]),
        RelationshipData(locs))

\* the statements of store_location, in order, on the transaction tx
LocationStatements(tx, loc) ==
    InsertRelationships(
        DeleteLocationSensors(
            InsertSensors(InsertOrReplaceLocation(tx, LocationRow(loc)),
                          [i \in 1..Len(loc.available_sensors) |->
                              SensorRow(loc.available_sensors[i])]),
            loc.id),
        RelationshipsOf(loc))

\* faulty variant: every statement is committed as it is executed (autocommit)
ConnExitAutocommit(tx, before) == tx

\* "with self.get_connection() as conn:" leaves by conn.commit() when the body
\* ended, and by a rollback (the exception is re-raised) when a statement raised
ConnExit(tx, before) == IF tx.error THEN before ELSE tx

Committed == Begin(locations, sensors, location_sensors)

\* get_sensors_by_location: SELECT s.id, s.name FROM sensors s JOIN location_sensors ls
\* ON s.id = ls.sensor_id WHERE ls.location_id = ?  (the rows, in no stated order)
GetSensorsByLocation(tx, location_id) ==
    { s \in tx.sensors :
        \E r \in tx.location_sensors : r.sensor_id = s.id /\ r.location_id = location_id }

\* ------------------------------------------------------------------ get_locations_by_coord

IsFresh(loc) ==
    /\ loc.last_updated # None
    /\ NowHour - loc.last_updated[1] < DayHours

RECURSIVE FreshLocations(_)
FreshLocations(locs) ==
    IF locs = <<>> THEN <<>>
    ELSE (IF IsFresh(Head(locs)) THEN <<Head(locs)>> ELSE <<>>) \o FreshLocations(Tail(locs))

\* ------------------------------------------------------------------ the caller

\* the sensor ids a call lists for location id
ListedFor(locs, id) ==
    { r.sensor_id : r \in { q \in Range(RelationshipData(locs)) : q.location_id = id } }

Contains(locs, id) == \E i \in 1..Len(locs) : locs[i].id = id

\* bookkeeping: the sensor ids each location was last listed with
Listed(e, locs) ==
    [l \in LocationIds |-> IF Contains(locs, l) THEN Some(ListedFor(locs, l)) ELSE e[l]]

ArgLocations == IF arg.op = "store_location" THEN <<arg.value>> ELSE arg.value

Writers == {1, 2}

IdleWriter == [pc |-> "idle", batch |-> <<>>, tx |-> Begin({}, {}, {})]

\* a newly created database file, and nobody calling
Init ==
    /\ locations = {}
    /\ sensors = {}
    /\ location_sensors = {}
    /\ arg = NoCall
    /\ pre = Begin({}, {}, {})
    /\ outcomes = <<>>
    /\ expected = [l \in LocationIds |-> None]
    /\ writers = [w \in Writers |-> IdleWriter]
    /\ lock = 0
    /\ observed = None
    /\ ground = None
    /\ ground_data = None
    /\ historical_data = <<>>
    /\ prediction = None
    /\ filtered_df = None

\* get_locations_by_coord up to its "if new_locations:": the provider's answer,
\* filtered to the locations updated within the last day, is the batch to store
PrepareSync(results) ==
    /\ arg = NoCall
    /\ FreshLocations(results) # <<>>
    /\ arg' = [op |-> "store_locations_batch", value |-> FreshLocations(results)]
    /\ UNCHANGED <<locations, sensors, location_sensors, pre, outcomes, expected, concVars, groundVars, predVars>>

\* a caller of db.store_location picks its location
PrepareStoreLocation(loc) ==
    /\ arg = NoCall
    /\ arg' = [op |-> "store_location", value |-> loc]
    /\ UNCHANGED <<locations, sensors, location_sensors, pre, outcomes, expected, concVars, groundVars, predVars>>

\* the end of one call: the tables, what the caller is told, and the bookkeeping
Finish(tx) ==
    /\ locations' = ConnExit(tx, Committed).locations
    /\ sensors' = ConnExit(tx, Committed).sensors
    /\ location_sensors' = ConnExit(tx, Committed).location_sensors
    /\ pre' = Committed
    /\ outcomes' = Append(outcomes, IF tx.error THEN "error" ELSE "ok")
    /\ expected' = IF tx.error THEN expected ELSE Listed(expected, ArgLocations)
    /\ UNCHANGED <<arg, concVars, groundVars, predVars>>

StoreLocationsBatch ==
    /\ arg.op = "store_locations_batch"
    /\ Len(outcomes) < MaxRepeat
    /\ Finish(BatchStatements(Committed, arg.value))

StoreLocation ==
    /\ arg.op = "store_location"
    /\ Len(outcomes) < MaxRepeat
    /\ Finish(LocationStatements(Committed, arg.value))

\* the caller is done with this argument
Return ==
    /\ arg # NoCall
    /\ outcomes # <<>>
    /\ arg' = NoCall
    /\ pre' = Committed
    /\ outcomes' = <<>>
    /\ UNCHANGED <<locations, sensors, location_sensors, expected, concVars, groundVars, predVars>>

Next ==
    \/ \E results \in ProviderResults : PrepareSync(results)
    \/ \E loc \in LocationsWith(SensorLists) : PrepareStoreLocation(loc)
    \/ StoreLocationsBatch
    \/ StoreLocation
    \/ Return

Spec == Init /\ [][Next]_vars

\* ------------------------------------------------------------------ concurrent callers
\* Every call opens its own connection (get_connection), so two callers of
\* store_locations_batch are two SQLite connections to one database file.  The
\* sqlite3 module opens a transaction before the first INSERT; that statement
\* takes the file's write lock, which the connection keeps until it commits or
\* rolls back.  A second connection's first INSERT waits for the lock and raises
\* sqlite3.OperationalError (database is locked) when its timeout expires.  A
\* connection reads the committed tables, and its own uncommitted rows only.

Fresh(id, available_sensors) == Location(id, Some(40), available_sensors)

S11 == [id |-> 11, name |-> "pm25"]
S12 == [id |-> 12, name |-> "no2"]

\* the batches of the concurrent callers: they overlap in location 1
ConcurrentBatches ==
    { <<Fresh(1, <<S11>>)>>, <<Fresh(1, <<S12>>)>>, <<Fresh(1, <<>>)>>,
      <<Fresh(1, <<S11, S12>>)>>,
      <<Fresh(1, <<S11>>), Fresh(2, <<S12>>)>>,
      <<Fresh(2, <<S11>>), Fresh(1, <<S12>>)>>,
      <<Fresh(1, <<S12>>), Fresh(1, <<S12>>)>> }

\* faulty variant: one connection shared by all callers, so a reader sees the rows of the
\* transaction in progress
ReaderViewShared == IF lock = 0 THEN Committed ELSE writers[lock].tx

\* the tables as a connection that is not writing sees them
ReaderView == Committed

Writing == {"sensors", "delete", "insert", "commit", "rollback"}

Step(w, pc, tx) ==
    /\ writers' = [writers EXCEPT ![w] = [@ EXCEPT !.pc = pc, !.tx = tx]]
    /\ observed' = None
    /\ UNCHANGED <<locations, sensors, location_sensors, expected, callerVars, groundVars, predVars>>

\* store_locations_batch is called: the connection is opened, the data prepared
WCall(w, batch) ==
    /\ writers[w].pc = "idle"
    /\ writers' = [writers EXCEPT ![w] = [pc |-> "locations", batch |-> batch,
                                          tx |-> Begin({}, {}, {})]]
    /\ observed' = None
    /\ UNCHANGED <<locations, sensors, location_sensors, expected, callerVars, lock, groundVars, predVars>>

\* executemany(INSERT OR REPLACE INTO locations): the write lock is taken
WInsertLocations(w) ==
    /\ writers[w].pc = "locations"
    /\ lock = 0
    /\ lock' = w
    /\ Step(w, "sensors", InsertLocations(Committed, LocationData(writers[w].batch)))

\* the same statement when another connection holds the lock until the timeout
WLocked(w) ==
    /\ writers[w].pc = "locations"
    /\ lock \notin {0, w}
    /\ writers' = [writers EXCEPT ![w] = IdleWriter]
    /\ observed' = None
    /\ UNCHANGED <<locations, sensors, location_sensors, expected, callerVars, lock, groundVars, predVars>>

\* executemany(INSERT OR IGNORE INTO sensors)
WInsertSensors(w) ==
    /\ writers[w].pc = "sensors"
    /\ Step(w, "delete", InsertSensors(writers[w].tx, SensorData(writers[w].batch)))
    /\ UNCHANGED lock

\* executemany(DELETE FROM location_sensors WHERE location_id = ?)
WDeleteRelationships(w) ==
    /\ writers[w].pc = "delete"
    /\ Step(w, "insert",
            DeleteRelationships(writers[w].tx,
                [i \in 1..Len(writers[w].batch) |-> writers[w].batch[i].id]))
    /\ UNCHANGED lock

\* executemany(INSERT INTO location_sensors)
WInsertRelationships(w) ==
    /\ writers[w].pc = "insert"
    /\ LET tx == InsertRelationships(writers[w].tx, RelationshipData(writers[w].batch))
       IN Step(w, IF tx.error THEN "rollback" ELSE "commit", tx)
    /\ UNCHANGED lock

\* conn.commit(): the transaction's rows become the committed tables
WCommit(w) ==
    /\ writers[w].pc = "commit"
    /\ locations' = writers[w].tx.locations
    /\ sensors' = writers[w].tx.sensors
    /\ location_sensors' = writers[w].tx.location_sensors
    /\ expected' = Listed(expected, writers[w].batch)
    /\ writers' = [writers EXCEPT ![w] = IdleWriter]
    /\ lock' = 0
    /\ observed' = None
    /\ UNCHANGED <<callerVars, groundVars, predVars>>

\* the connection's context manager rolls back and the error reaches the caller
WRollback(w) ==
    /\ writers[w].pc = "rollback"
    /\ writers' = [writers EXCEPT ![w] = IdleWriter]
    /\ lock' = 0
    /\ observed' = None
    /\ UNCHANGED <<locations, sensors, location_sensors, expected, callerVars, groundVars, predVars>>

\* a concurrent get_sensors_by_location(l), on a connection of its own
Read(l) ==
    /\ observed' = Some([ location_id |-> l,
                     sensor_ids |-> SensorIdsOfRows(GetSensorsByLocation(ReaderView, l)),
                     complete |-> expected[l],
                     during |-> IF lock = 0 THEN "idle" ELSE writers[lock].pc ])
    /\ UNCHANGED <<locations, sensors, location_sensors, expected, callerVars, writers, lock, groundVars, predVars>>

NextConcurrent ==
    \/ \E w \in Writers, b \in ConcurrentBatches : WCall(w, b)
    \/ \E w \in Writers : WInsertLocations(w)
    \/ \E w \in Writers : WLocked(w)
    \/ \E w \in Writers : WInsertSensors(w)
    \/ \E w \in Writers : WDeleteRelationships(w)
    \/ \E w \in Writers : WInsertRelationships(w)
    \/ \E w \in Writers : WCommit(w)
    \/ \E w \in Writers : WRollback(w)
    \/ \E l \in LocationIds : Read(l)

SpecConcurrent == Init /\ [][NextConcurrent]_vars

\* ------------------------------------------------------------------ get_ground_data_by_location_id

\* what client.locations.list returns in the aggregation runs
SyncResults ==
    ConcurrentBatches \cup { <<Location(2, Some(10), <<S11>>)>>, <<Location(2, None, <<S12>>)>> }

\* get_locations_by_coord, the whole call: the provider's answer is filtered to the
\* locations updated within the last day and, if any is left, stored as one batch
GetLocationsByCoord(results) ==
    LET new_locations == FreshLocations(results)
        tx == IF new_locations # <<>> THEN BatchStatements(Committed, new_locations)
              ELSE Committed
    IN /\ ground = None
       /\ ground_data = None
       /\ locations' = ConnExit(tx, Committed).locations
       /\ sensors' = ConnExit(tx, Committed).sensors
       /\ location_sensors' = ConnExit(tx, Committed).location_sensors
       /\ expected' = IF tx.error THEN expected ELSE Listed(expected, new_locations)
       /\ UNCHANGED <<groundVars, callerVars, concVars, predVars>>

\* a measurement of a response: parameter (name, units), value, period.datetime_to.utc;
\* a malformed one has no parameter
Measurement(name, value, utc) ==
    [parameter |-> Some([name |-> name, units |-> "ug/m3"]), value |-> value, utc |-> utc]

Malformed == [parameter |-> None, value |-> 1, utc |-> 1]

Measurements ==
    { Measurement("pm25", 5, 1), Measurement("pm25", 9, 2),
      Measurement("no2", 7, 1), Measurement("no2", 3, 2), Malformed }

\* what client.measurements.list does for one sensor: it raises, or it answers
\* with up to two measurements
FetchError == [raises |-> TRUE, results |-> <<>>]

Response(results) == [raises |-> FALSE, results |-> results]

FetchOutcomes ==
    {FetchError} \cup {Response(<<>>)}
        \cup { Response(<<a>>) : a \in Measurements }
        \cup { Response(<<a, b>>) : a \in Measurements, b \in Measurements }

UnknownLocationId == 3

\* the dict parameters: a function from parameter names
EmptyDict == <<>>

DictSet(d, k, v) == [x \in DOMAIN d \cup {k} |-> IF x = k THEN v ELSE d[x]]

\* the entry stored for latest_measurement of sensor
Entry(sensor, latest_measurement) ==
    [ value |-> latest_measurement.value,
      unit |-> latest_measurement.parameter[1].units,
      sensor_id |-> sensor.id,
      sensor_name |-> sensor.name,
      timestamp |-> latest_measurement.utc ]

\* the body of the try block for one sensor: [parameters, raised]
TryBody(parameters, sensor, fetch) ==
    IF fetch.raises THEN [parameters |-> parameters, raised |-> TRUE]
    ELSE IF fetch.results = <<>> THEN [parameters |-> parameters, raised |-> FALSE]
    ELSE LET latest_measurement == fetch.results[1]
         IN IF latest_measurement.parameter = None
            THEN [parameters |-> parameters, raised |-> TRUE]
            ELSE [ parameters |-> DictSet(parameters,
                                          latest_measurement.parameter[1].name,
                                          Entry(sensor, latest_measurement)),
                   raised |-> FALSE ]

\* faulty variant: no except clause, the exception leaves the loop
ExceptReraise(parameters, attempt) == attempt

\* except Exception as e: print(...); continue
ExceptContinue(parameters, attempt) ==
    IF attempt.raised THEN [parameters |-> parameters, raised |-> FALSE] ELSE attempt

\* for sensor in sensors: the sensors in the order the query returned them
RECURSIVE ForSensors(_, _, _)
ForSensors(acc, sensor_list, fetch) ==
    IF sensor_list = <<>> \/ acc.raised THEN acc
    ELSE ForSensors(
            LET r == ExceptContinue(acc.parameters,
                        TryBody(acc.parameters, Head(sensor_list), fetch[Head(sensor_list).id]))
            IN [parameters |-> r.parameters, raised |-> r.raised, fetches |-> acc.fetches + 1],
            Tail(sensor_list), fetch)

\* faulty variant: the check for an empty sensor list is lost
NoSensorsUnchecked(sensor_list) == FALSE

\* if not sensors:
NoSensors(sensor_list) == sensor_list = <<>>

\* datetime_from / datetime_to default to a day ago / now
DatetimeFrom(datetime_from) ==
    IF datetime_from = None THEN IsoFormat(Some(NowHour - DayHours)) ELSE datetime_from

DatetimeTo(datetime_to) ==
    IF datetime_to = None THEN IsoFormat(Some(NowHour)) ELSE datetime_to

\* the whole call: what it returns (or that it raised) and how many fetches it made
GroundData(location_id, sensor_list, fetch, datetime_from, datetime_to) ==
    IF NoSensors(sensor_list)
    THEN [ raised |-> FALSE, fetches |-> 0,
           result |-> [ source |-> "OpenAQ", parameters |-> EmptyDict,
                        message |-> <<"No sensors found for location ID ", location_id>> ] ]
    ELSE LET loop == ForSensors([parameters |-> EmptyDict, raised |-> FALSE, fetches |-> 0],
                                sensor_list, fetch)
         IN [ raised |-> loop.raised, fetches |-> loop.fetches,
              result |-> [ source |-> "OpenAQ", parameters |-> loop.parameters,
                           datetime_from |-> DatetimeFrom(datetime_from),
                           datetime_to |-> DatetimeTo(datetime_to),
                           sensors_count |-> Len(sensor_list),
                           measurements_found |-> Cardinality(DOMAIN loop.parameters) ] ]

\* the orders in which a query without ORDER BY may return the rows
Orderings(rows) ==
    { q \in [1..Cardinality(rows) -> rows] : \A i, j \in 1..Cardinality(rows) : i # j => q[i] # q[j] }

\* one call: the sensors as the query returned them, and what each fetch does
GetGroundDataByLocationId(location_id, datetime_from) ==
    /\ ground = None
    /\ ground_data = None
    /\ \E sensor_list \in Orderings(GetSensorsByLocation(Committed, location_id)) :
          \E fetch \in [SensorIdsOfRows(Range(sensor_list)) -> FetchOutcomes] :
             ground' = Some([ location_id |-> location_id, sensors |-> sensor_list,
                              fetch |-> fetch,
                              call |-> GroundData(location_id, sensor_list, fetch,
                                                  datetime_from, None) ])
    /\ UNCHANGED <<ground_data, locations, sensors, location_sensors, expected,
                   callerVars, concVars, predVars>>

\* the parameters of def get_ground_data_by_location_id
GroundDataParameters == {"location_id", "datetime_from", "datetime_to", "limit"}

\* Python binds a call's keyword arguments to the parameters before the body
\* runs: a keyword that names no parameter raises TypeError
BindsArguments(keywords) == keywords \subseteq GroundDataParameters

\* the keywords of get_ground_data_by_location_id(selected_location.id, ...):
\* include_predictions is left out (None) or passed as Some(TRUE) / Some(FALSE)
CallKeywords(include_predictions) ==
    IF include_predictions = None THEN {} ELSE {"include_predictions"}

\* app.py, a location is selected: ground_data = get_ground_data_by_location_id(
\* selected_location.id, include_predictions=False), and the same call with the
\* flag set or left out.  A TypeError is not caught by the page.
SelectLocation(location_id, include_predictions) ==
    /\ ground = None
    /\ ground_data = None
    /\ \E sensor_list \in Orderings(GetSensorsByLocation(Committed, location_id)) :
          \E fetch \in [SensorIdsOfRows(Range(sensor_list)) -> FetchOutcomes] :
             ground_data' =
                Some([ location_id |-> location_id,
                       include_predictions |-> include_predictions,
                       call |-> IF BindsArguments(CallKeywords(include_predictions))
                                THEN GroundData(location_id, sensor_list, fetch, None, None)
                                ELSE [raised |-> TRUE, fetches |-> 0, result |-> None] ])
    /\ UNCHANGED <<ground, locations, sensors, location_sensors, expected,
                   callerVars, concVars, predVars>>

\* the caller has taken the result (app.py: ground_data = ...)
GroundReturn ==
    /\ ground # None \/ ground_data # None
    /\ ground' = None
    /\ ground_data' = None
    /\ UNCHANGED <<locations, sensors, location_sensors, expected, callerVars, concVars, predVars>>

NextGround ==
    \/ \E results \in SyncResults : GetLocationsByCoord(results)
    \/ \E location_id \in LocationIds \cup {UnknownLocationId},
          datetime_from \in {None, <<"iso", 0>>} :
            GetGroundDataByLocationId(location_id, datetime_from)
    \/ \E location_id \in LocationIds, include_predictions \in {None, Some(TRUE), Some(FALSE)} :
            SelectLocation(location_id, include_predictions)
    \/ GroundReturn

SpecGround == Init /\ [][NextGround]_vars

\* ------------------------------------------------------------------ predict_parameter_from_data
\* A DataFrame is the sequence of its rows [timestamp, value]; a missing value
\* (NaN) is None.  Values are integers; quartiles are kept as 4 * Q and the
\* outlier bounds as 8 * bound, so that the interpolation stays exact.

MinDataPoints == 10

\* the longest series, and the most samples of it that differ from the usual reading
MaxSeries == 10
MaxOdd == 3

UsualValue == Some(10)
OddValues == {Some(-5), Some(1000), None}

\* forecast_hours of the calls (24 by default)
ForecastHours == 2

Values(df) == [i \in 1..Len(df) |-> df[i].value]

RECURSIVE DropNaN(_)
DropNaN(vs) ==
    IF vs = <<>> THEN <<>>
    ELSE (IF Head(vs) = None THEN <<>> ELSE <<Head(vs)[1]>>) \o DropNaN(Tail(vs))

RECURSIVE Insert(_, _)
Insert(sorted, v) ==
    IF sorted = <<>> THEN <<v>>
    ELSE IF v <= Head(sorted) THEN <<v>> \o sorted
    ELSE <<Head(sorted)>> \o Insert(Tail(sorted), v)

RECURSIVE Sorted(_)
Sorted(vs) == IF vs = <<>> THEN <<>> ELSE Insert(Sorted(Tail(vs)), Head(vs))

\* 4 * Series.quantile(k / 4) of the sorted, NaN-free, non-empty values: linear
\* interpolation between the two nearest ranks
Quantile4(sorted, k) ==
    LET pos == k * (Len(sorted) - 1)
        lo == (pos \div 4) + 1
        frac == pos % 4
    IN IF frac = 0 THEN 4 * sorted[lo]
       ELSE 4 * sorted[lo] + frac * (sorted[lo + 1] - sorted[lo])

Max(a, b) == IF a >= b THEN a ELSE b

RECURSIVE Filter(_, _, _)
Filter(df, lower8, upper8) ==
    IF df = <<>> THEN <<>>
    ELSE (IF /\ Head(df).value # None
             /\ 8 * Head(df).value[1] >= lower8
             /\ 8 * Head(df).value[1] <= upper8
          THEN <<Head(df)>> ELSE <<>>) \o Filter(Tail(df), lower8, upper8)

\* faulty variant: the lower bound is not raised to 0
RemoveOutliersNoFloor(df) ==
    IF df = <<>> \/ Len(df) < 3 THEN df
    ELSE LET sorted == Sorted(DropNaN(Values(df)))
         IN IF sorted = <<>> THEN <<>>
            ELSE LET Q1 == Quantile4(sorted, 1)
                     Q3 == Quantile4(sorted, 3)
                     IQR == Q3 - Q1
                 IN Filter(df, 2 * Q1 - 3 * IQR, 2 * Q3 + 3 * IQR)

\* _remove_outliers
RemoveOutliers(df) ==
    IF df = <<>> \/ Len(df) < 3 THEN df
    ELSE LET sorted == Sorted(DropNaN(Values(df)))
         IN IF sorted = <<>> THEN <<>>      \* the quartiles are NaN: no row compares true
            ELSE LET Q1 == Quantile4(sorted, 1)
                     Q3 == Quantile4(sorted, 3)
                     IQR == Q3 - Q1
                     lower_bound == Max(0, 2 * Q1 - 3 * IQR)
                     upper_bound == 2 * Q3 + 3 * IQR
                 IN Filter(df, lower_bound, upper_bound)

RECURSIVE DropNa(_)
DropNa(rows) ==
    IF rows = <<>> THEN <<>>
    ELSE (IF Head(rows).y = None \/ Head(rows).ds = None THEN <<>> ELSE <<Head(rows)>>)
            \o DropNa(Tail(rows))

\* _prepare_prophet_data
PrepareProphetData(df) ==
    IF df = <<>> THEN <<>>
    ELSE DropNa([i \in 1..Len(df) |-> [ds |-> df[i].timestamp, y |-> df[i].value]])

\* _create_prophet_model: the settings, interval_width in percent
CreateProphetModel ==
    [ daily_seasonality |-> TRUE, weekly_seasonality |-> TRUE, yearly_seasonality |-> FALSE,
      seasonality_mode |-> "additive", interval_width |-> 80, mcmc_samples |-> 0 ]

\* what the fitted model may answer for a row, in 1/10000: yhat, yhat_lower, yhat_upper
ForecastRows ==
    { [yhat |-> 123456, yhat_lower |-> 100004, yhat_upper |-> 150005],
      [yhat |-> 20015, yhat_lower |-> -30000, yhat_upper |-> 70025],
      [yhat |-> -5000, yhat_lower |-> -90000, yhat_upper |-> -1] }

\* round(x, 3) of a non-negative x in 1/10000: to the nearest 1/1000, a tie to even
Round3(x) ==
    LET q == x \div 10
        r == x % 10
    IN 10 * (IF r > 5 \/ (r = 5 /\ q % 2 = 1) THEN q + 1 ELSE q)

\* forecast.tail(n)
TailRows(rows, n) == IF Len(rows) <= n THEN rows ELSE SubSeq(rows, Len(rows) - n + 1, Len(rows))

\* faulty variant: the values are rounded but not floored at 0
ExtractPredictionsUnfloored(forecast, forecast_hours, confidence_interval) ==
    LET predictions == TailRows(forecast, forecast_hours)
    IN [i \in 1..Len(predictions) |->
          [ timestamp |-> IsoFormat(Some(predictions[i].ds)),
            predicted_value |-> Round3(predictions[i].yhat),
            lower_bound |-> Some(Round3(predictions[i].yhat_lower)),
            upper_bound |-> Some(Round3(predictions[i].yhat_upper)) ]]

\* _extract_predictions
ExtractPredictions(forecast, forecast_hours, confidence_interval) ==
    LET predictions == TailRows(forecast, forecast_hours)
    IN [i \in 1..Len(predictions) |->
          [ timestamp |-> IsoFormat(Some(predictions[i].ds)),
            predicted_value |-> Round3(Max(0, predictions[i].yhat)),
            lower_bound |-> Some(Round3(Max(0, predictions[i].yhat_lower))),
            upper_bound |-> Some(Round3(Max(0, predictions[i].yhat_upper))) ]]

\* model.predict(model.make_future_dataframe(periods, freq="h")): the history's
\* rows and then one row per forecast hour
Forecast(df, periods, row) ==
    [i \in 1..(Len(df) + periods) |->
        [ ds |-> IF i <= Len(df) THEN df[i].ds[1] ELSE df[Len(df)].ds[1] + (i - Len(df)),
          yhat |-> row.yhat, yhat_lower |-> row.yhat_lower, yhat_upper |-> row.yhat_upper ]]

\* not (historical_data.empty or len(historical_data) < self.min_data_points)
EnoughData(data) ==
    ~(data = <<>> \/ Len(data) < MinDataPoints)

\* predict_parameter_from_data: None, or Some(ParameterPrediction).  fit_raises
\* and row are what Prophet does: model.fit raises on fewer than 2 rows, and may
\* raise otherwise; any exception is caught and None returned.
PredictParameterFromData(data, parameter_name, parameter_unit, forecast_hours, confidence_interval, fit_raises, row) ==
    IF ~EnoughData(data) THEN None
    ELSE LET cleaned_data == RemoveOutliers(data)
             df == PrepareProphetData(cleaned_data)
             model == CreateProphetModel
         IN IF df = <<>> THEN None
            ELSE IF Len(df) < 2 \/ fit_raises THEN None
            ELSE Some([ parameter_name |-> parameter_name,
                        unit |-> parameter_unit,
                        model_type |-> "Prophet",
                        forecast_hours |-> forecast_hours,
                        predictions |-> ExtractPredictions(Forecast(df, forecast_hours, row),
                                                           forecast_hours, confidence_interval),
                        confidence_interval |-> confidence_interval,
                        training_data_points |-> Len(df) ])

Odd(df) == { i \in 1..Len(df) : df[i].value # UsualValue }

\* measurements_to_dataframe: one more row, the rows in timestamp order
AppendSample(value) ==
    /\ prediction = None
    /\ Len(historical_data) < MaxSeries
    /\ value # UsualValue => Cardinality(Odd(historical_data)) < MaxOdd
    /\ historical_data' = Append(historical_data,
                                 [timestamp |-> Some(Len(historical_data) + 1), value |-> value])
    /\ UNCHANGED <<prediction, filtered_df, locations, sensors, location_sensors, expected,
                   callerVars, concVars, groundVars>>

Predict(confidence_interval, fit_raises, row) ==
    /\ prediction = None
    /\ prediction' = Some([ confidence_interval |-> confidence_interval,
                            row |-> row,
                            interval_width |-> CreateProphetModel.interval_width,
                            returned |-> PredictParameterFromData(historical_data, "pm25", "ug/m3",
                                            ForecastHours, confidence_interval, fit_raises, row) ])
    /\ UNCHANGED <<historical_data, filtered_df, locations, sensors, location_sensors,
                   expected, callerVars, concVars, groundVars>>

NextPredict ==
    \/ \E value \in {UsualValue} \cup OddValues : AppendSample(value)
    \/ \E confidence_interval \in {80, 95}, fit_raises \in BOOLEAN, row \in ForecastRows :
          Predict(confidence_interval, fit_raises, row)

SpecPredict == Init /\ [][NextPredict]_vars

\* ------------------------------------------------------------------ _remove_outliers
\* The function on its own: the series it is given are all the series of up to
\* MaxSamples values of SampleValues, and the series of ExampleValues.

MaxSamples == 4

SampleValues == {None, Some(-5), Some(9), Some(10), Some(12), Some(1000)}

ExampleValues ==
    <<Some(10), Some(11), Some(9), Some(10), Some(12), Some(11), Some(9), Some(10), Some(1000)>>

\* the DataFrame of the values: one row per hour
DataFrame(values) == [i \in 1..Len(values) |-> [timestamp |-> Some(i), value |-> values[i]]]

OutlierInputs ==
    { DataFrame(values) :
        values \in {ExampleValues} \cup UNION { [1..n -> SampleValues] : n \in 0..MaxSamples } }

InitOutliers ==
    /\ locations = {}
    /\ sensors = {}
    /\ location_sensors = {}
    /\ arg = NoCall
    /\ pre = Begin({}, {}, {})
    /\ outcomes = <<>>
    /\ expected = [l \in LocationIds |-> None]
    /\ writers = [w \in Writers |-> IdleWriter]
    /\ lock = 0
    /\ observed = None
    /\ ground = None
    /\ ground_data = None
    /\ historical_data \in OutlierInputs
    /\ prediction = None
    /\ filtered_df = None

\* self._remove_outliers(historical_data), called on its own
RemoveOutliersCall ==
    /\ filtered_df = None
    /\ filtered_df' = Some(RemoveOutliers(historical_data))
    /\ UNCHANGED <<historical_data, prediction, locations, sensors, location_sensors,
                   expected, callerVars, concVars, groundVars>>

NextOutliers == RemoveOutliersCall

SpecOutliers == InitOutliers /\ [][NextOutliers]_vars

\* ------------------------------------------------------------------ claims, Spec

LastOutcome == outcomes[Len(outcomes)]

IsBatchCall == arg.op = "store_locations_batch"

Called == outcomes # <<>>

\* C1: a second store_locations_batch with the batch the first one accepted is
\* accepted too and leaves the location rows, the sensor rows, the relationship
\* rows and the three row counts as they were after the first call.
Idempotence ==
    (IsBatchCall /\ Len(outcomes) >= 2 /\ outcomes[Len(outcomes) - 1] = "ok") =>
        /\ LastOutcome = "ok"
        /\ locations = pre.locations
        /\ sensors = pre.sensors
        /\ location_sensors = pre.location_sensors
        /\ Cardinality(locations) = Cardinality(pre.locations)
        /\ Cardinality(sensors) = Cardinality(pre.sensors)
        /\ Cardinality(location_sensors) = Cardinality(pre.location_sensors)

IdempotenceWitness ==
    /\ IsBatchCall
    /\ outcomes = <<"ok", "ok">>
    /\ Len(arg.value) = 2
    /\ Cardinality(location_sensors) = 2

\* the first name under which the batch lists sensor id
FirstNameInBatch(locs, id) ==
    LET all == AllSensors(locs)
        first == CHOOSE i \in 1..Len(all) :
                    /\ all[i].id = id
                    /\ \A j \in 1..(i - 1) : all[j].id # id
    IN all[first].name

\* the batch lists the not yet stored sensor id under two different locations
\* with different names
ListedTwiceAnew(locs, before, id) ==
    /\ id \notin SensorIdsOfRows(before.sensors)
    /\ \E i, j \in 1..Len(locs) :
          /\ locs[i].id # locs[j].id
          /\ \E s \in Range(locs[i].available_sensors), t \in Range(locs[j].available_sensors) :
                s.id = id /\ t.id = id /\ s.name # t.name

\* C2: when a batch lists the same, not yet stored, sensor id under two locations
\* with different names, exactly one sensor row is added for the id and its name is
\* the one of the location that comes first in the batch.
DedupFirstNameWins ==
    \A id \in SensorIds :
        (IsBatchCall /\ Called /\ LastOutcome = "ok" /\ ListedTwiceAnew(arg.value, pre, id)) =>
            /\ Cardinality({ r \in sensors : r.id = id }) = 1
            /\ \A r \in sensors : r.id = id => r.name = FirstNameInBatch(arg.value, id)

\* C3: get_sensors_by_location(L) returns exactly the sensors listed for L by the
\* most recent successful call that contained L; after an upsert of L with no
\* sensors the location row is stored and L has no relationship row.
RelationshipConvergence ==
    \A l \in LocationIds :
        expected[l] # None =>
            /\ SensorIdsOfRows(GetSensorsByLocation(Committed, l)) = expected[l][1]
            /\ { r.sensor_id : r \in { q \in location_sensors : q.location_id = l } }
                  = expected[l][1]
            /\ \E row \in locations : row.id = l

RelationshipConvergenceWitness ==
    /\ Called /\ LastOutcome = "ok"
    /\ \E l \in LocationIds :
          /\ [location_id |-> l, sensor_id |-> 11] \in pre.location_sensors
          /\ expected[l] = Some({12})
    /\ \E l \in LocationIds :
          /\ \E q \in pre.location_sensors : q.location_id = l
          /\ expected[l] = Some({})

\* C4: a call in which a statement fails reports the error and leaves the three
\* tables exactly as they were before the call.
AtomicBatchWrite ==
    (Called /\ LastOutcome = "error") =>
        /\ locations = pre.locations
        /\ sensors = pre.sensors
        /\ location_sensors = pre.location_sensors

\* a failed batch whose earlier statements had written locations, sensors and
\* had deleted relationships
AtomicBatchWriteWitness ==
    /\ IsBatchCall /\ Called /\ LastOutcome = "error"
    /\ LET tx == BatchStatements(pre, arg.value)
       IN /\ tx.locations # pre.locations
          /\ tx.sensors # pre.sensors
          /\ ~(pre.location_sensors \subseteq tx.location_sensors)

\* C6: every location_sensors row references a stored location and a stored sensor.
ReferentialIntegrity ==
    \A r \in location_sensors :
        /\ \E l \in locations : l.id = r.location_id
        /\ \E s \in sensors : s.id = r.sensor_id

ReferentialIntegrityWitness ==
    /\ Cardinality(location_sensors) >= 3
    /\ Called /\ LastOutcome = "error"

\* C7: a stored sensor row is never changed or removed by a later call, whatever
\* name the call carries for its id.
SensorRowsImmutable == pre.sensors \subseteq sensors

SensorRowsImmutableWitness ==
    /\ Called /\ LastOutcome = "ok"
    /\ \E s \in Range(AllSensors(ArgLocations)) :
          \E r \in pre.sensors : r.id = s.id /\ r.name # s.name

\* ------------------------------------------------------------------ claims, SpecConcurrent

RelationshipIds(l) == { r.sensor_id : r \in { q \in location_sensors : q.location_id = l } }

WholeSet(e) == IF e = None THEN {} ELSE e[1]

\* C5: concurrent store_locations_batch calls never interleave their statements,
\* and each concurrent reader and the committed tables show, for every location,
\* the whole relationship set of one committed batch.
WriteSerialization ==
    /\ Cardinality({ w \in Writers : writers[w].pc \in Writing }) <= 1
    /\ \A l \in LocationIds : RelationshipIds(l) = WholeSet(expected[l])
    /\ observed # None => observed[1].sensor_ids = WholeSet(observed[1].complete)

\* a read of location 1 made while one caller is between its delete and its
\* re-insert of location 1's relationships and the other caller waits to write it
WriteSerializationWitness ==
    /\ observed # None
    /\ observed[1].during = "insert"
    /\ observed[1].location_id = 1
    /\ observed[1].sensor_ids # {}
    /\ \E w \in Writers :
          /\ lock = w
          /\ Contains(writers[w].batch, 1)
          /\ \A r \in writers[w].tx.location_sensors : r.location_id # 1
          /\ \E v \in Writers \ {w} :
                writers[v].pc = "locations" /\ Contains(writers[v].batch, 1)

\* ------------------------------------------------------------------ claims, SpecGround

\* the fetch for a sensor succeeded: the request did not raise and the payload of
\* the measurement that is read has its parameter
Succeeded(f) == ~f.raises /\ (f.results # <<>> => f.results[1].parameter # None)

\* the sensors of the call that succeeded and reported a measurement
Reporting(g) ==
    { s \in Range(g.sensors) : Succeeded(g.fetch[s.id]) /\ g.fetch[s.id].results # <<>> }

ReportedName(g, s) == g.fetch[s.id].results[1].parameter[1].name

\* C8: whichever sensors' fetches fail, the call returns normally and its
\* parameters map is built from the sensors that succeeded only; if every sensor
\* fails the map is empty.
BestEffortAggregation ==
    (ground # None /\ ground[1].sensors # <<>>) =>
        LET g == ground[1]
            parameters == g.call.result.parameters
        IN /\ ~g.call.raised
           /\ DOMAIN parameters = { ReportedName(g, s) : s \in Reporting(g) }
           /\ \A name \in DOMAIN parameters :
                 \E s \in Reporting(g) :
                    /\ ReportedName(g, s) = name
                    /\ parameters[name] = Entry(s, g.fetch[s.id].results[1])
           /\ (\A s \in Range(g.sensors) : ~Succeeded(g.fetch[s.id])) => parameters = EmptyDict

\* a call in which the first sensor's fetch raised and the second sensor reported
BestEffortAggregationWitness ==
    /\ ground # None
    /\ Len(ground[1].sensors) = 2
    /\ ground[1].fetch[ground[1].sensors[1].id].raises
    /\ ground[1].sensors[2] \in Reporting(ground[1])
    /\ DOMAIN ground[1].call.result.parameters # {}

\* C9: for a location id without stored sensors get_sensors_by_location returns
\* an empty collection, and the call makes no fetch, raises nothing and returns
\* empty parameters with a non-empty message.
NoSensorResult ==
    \A l \in LocationIds \cup {UnknownLocationId} :
        (ground # None /\ ground[1].location_id = l
            /\ RelationshipIds(l) = {}) =>
                /\ GetSensorsByLocation(Committed, l) = {}
                /\ ground[1].sensors = <<>>
                /\ ground[1].call.fetches = 0
                /\ ~ground[1].call.raised
                /\ ground[1].call.result.parameters = EmptyDict
                /\ "message" \in DOMAIN ground[1].call.result
                /\ ground[1].call.result.message # <<>>
                /\ ground[1].call.result.message[1] # ""

\* the call for a location whose sensors were removed by its latest upsert
NoSensorResultWitness ==
    /\ ground # None
    /\ ground[1].location_id = 1
    /\ expected[1] = Some({})
    /\ sensors # {}
    /\ "message" \in DOMAIN ground[1].call.result

\* the greatest period.datetime_to.utc among the samples of a response
MostRecentUtc(results) ==
    CHOOSE u \in { results[i].utc : i \in 1..Len(results) } :
        \A i \in 1..Len(results) : results[i].utc <= u

\* C11: the value and timestamp reported for a parameter are those of the sample
\* with the greatest timestamp among all samples the provider returned for the
\* reporting sensor, in whatever order it returned them.
LatestIsMostRecent ==
    ground # None =>
        LET g == ground[1]
            parameters == g.call.result.parameters
        IN \A name \in DOMAIN parameters :
              \A s \in Range(g.sensors) :
                 s.id = parameters[name].sensor_id =>
                    LET results == g.fetch[s.id].results
                    IN /\ parameters[name].timestamp = MostRecentUtc(results)
                       /\ \E i \in 1..Len(results) :
                             /\ results[i].utc = MostRecentUtc(results)
                             /\ results[i].value = parameters[name].value

\* C15: for the call's sensors and fetch outcomes the parameters map is the same
\* for every order in which the sensors are processed, also when two sensors
\* report the same parameter name, and every sensor that succeeded and reported
\* has contributed to the map that is returned.
SensorOrderIndependence ==
    ground # None =>
        LET g == ground[1]
            parameters == g.call.result.parameters
        IN /\ \A sensor_list \in Orderings(Range(g.sensors)) :
                 GroundData(g.location_id, sensor_list, g.fetch, None, None).result.parameters
                    = parameters
           /\ \A s \in Reporting(g) : ReportedName(g, s) \in DOMAIN parameters

\* the call asks for predictions: the flag is true, or left to its default
PredictionsRequested(include_predictions) ==
    include_predictions = None \/ include_predictions = Some(TRUE)

\* C12: the ground-data call accepts an include_predictions flag (default true);
\* when predictions are requested every parameter's entry carries its prediction,
\* and when they are not requested no entry carries one.
PredictionAttachment ==
    ground_data # None =>
        LET c == ground_data[1]
        IN /\ ~c.call.raised
           /\ \A name \in DOMAIN c.call.result.parameters :
                 ("prediction" \in DOMAIN c.call.result.parameters[name])
                    <=> PredictionsRequested(c.include_predictions)

\* ------------------------------------------------------------------ claims, SpecPredict

CleanedPoints == PrepareProphetData(RemoveOutliers(historical_data))

\* C10: no prediction is returned when fewer than 10 points are left after outlier
\* removal and NaN dropping, and every returned prediction has
\* training_data_points >= 10.
InsufficientDataContract ==
    prediction # None =>
        /\ Len(CleanedPoints) < MinDataPoints => prediction[1].returned = None
        /\ prediction[1].returned # None =>
              prediction[1].returned[1].training_data_points >= MinDataPoints

\* the fitted model's answer of the last call; every forecast row carries it
ModelRow == prediction[1].row

\* C13: in every returned ParameterPrediction every point's predicted_value,
\* lower_bound and upper_bound is >= 0, whatever values the fitted model produced.
ForecastNonNegativity ==
    (prediction # None /\ prediction[1].returned # None) =>
        LET points == prediction[1].returned[1].predictions
        IN \A i \in 1..Len(points) :
              /\ points[i].predicted_value >= 0
              /\ points[i].lower_bound # None /\ points[i].lower_bound[1] >= 0
              /\ points[i].upper_bound # None /\ points[i].upper_bound[1] >= 0

\* a prediction returned from a model whose yhat, yhat_lower and yhat_upper were
\* all below zero
ForecastNonNegativityWitness ==
    /\ prediction # None
    /\ prediction[1].returned # None
    /\ Len(prediction[1].returned[1].predictions) = ForecastHours
    /\ ModelRow.yhat < 0 /\ ModelRow.yhat_lower < 0 /\ ModelRow.yhat_upper < 0

\* C14: for every call with a confidence_interval c the uncertainty-interval width
\* the model is configured with equals c, so the confidence_interval reported in the
\* returned ParameterPrediction is the width used for lower_bound and upper_bound.
ConfidenceLevelHonoured ==
    (prediction # None /\ prediction[1].returned # None) =>
        /\ prediction[1].interval_width = prediction[1].confidence_interval
        /\ prediction[1].returned[1].confidence_interval = prediction[1].interval_width

\* ------------------------------------------------------------------ claims, SpecOutliers

\* the values of the series that are present, in ascending order
Present(df) == Sorted(DropNaN(Values(df)))

\* max(0, Q1 - 1.5 * IQR) <= v <= Q3 + 1.5 * IQR, with Q1 and Q3 the quartiles of
\* the series' values; both sides are multiplied by 8 (Quantile4 is 4 * Q)
WithinBounds(v, df) ==
    /\ v # None
    /\ LET Q1 == Quantile4(Present(df), 1)
           Q3 == Quantile4(Present(df), 3)
       IN /\ 8 * v[1] >= 0
          /\ 8 * v[1] >= 2 * Q1 - 3 * (Q3 - Q1)
          /\ 8 * v[1] <= 2 * Q3 + 3 * (Q3 - Q1)

\* the rows of out are rows of df, in the order of df, none of them twice
IsSubsequence(out, df) ==
    \E pick \in SUBSET (1..Len(df)) :
        /\ Len(out) = Cardinality(pick)
        /\ \A i \in 1..Len(out) :
              out[i] = df[CHOOSE k \in pick : Cardinality({ j \in pick : j <= k }) = i]

\* C16: _remove_outliers returns a series of fewer than 3 samples unchanged; of a
\* series of 3 or more samples it returns, in the original order and unaltered,
\* exactly the samples whose value lies in [max(0, Q1 - 1.5 IQR), Q3 + 1.5 IQR],
\* so no negative value is kept and, of 10,11,9,10,12,11,9,10,1000, only 1000 is
\* rejected.
OutlierRejection ==
    filtered_df # None =>
        LET df == historical_data
            out == filtered_df[1]
        IN /\ Len(df) < 3 => out = df
           /\ Len(df) >= 3 =>
                 /\ IsSubsequence(out, df)
                 /\ \A i \in 1..Len(df) :
                       (\E k \in 1..Len(out) : out[k] = df[i]) <=> WithinBounds(df[i].value, df)
                 /\ \A k \in 1..Len(out) : out[k].value[1] >= 0
           /\ Values(df) = ExampleValues => Values(out) = SubSeq(ExampleValues, 1, 8)

\* the example series has been cleaned: 8 of its 9 rows are left
OutlierRejectionWitness ==
    /\ filtered_df # None
    /\ Values(historical_data) = ExampleValues
    /\ Len(filtered_df[1]) = 8

====
